---- MODULE Spec2Model ----
(***************************************************************************)
(* Model of bevy-kinect (src/src/main.rs): the startup system setup_kinect,*)
(* the depth stream's channel between the freenect process thread and the  *)
(* per-tick systems, and the four per-tick systems read_depth_data,        *)
(* keyboard_input, update_image_from_depth_data and move_crosshair_to_pos. *)
(*                                                                         *)
(* The depth stream's `receiver` (main.rs:122) is a std::sync::mpsc        *)
(* receiver: a FIFO queue without a capacity.  The four systems are added  *)
(* with add_system and no ordering constraint (main.rs:301-304), so within *)
(* one tick the scheduler may run them in any order.                       *)
(***************************************************************************)
EXTENDS Integers, Sequences, FiniteSets

VARIABLES
    pc,           \* position of the program: a setup_kinect step, "running", or a panic
    dev_count,    \* setup_kinect's dev_count (main.rs:29)
    chan,         \* frames sent on the depth stream's channel and not yet received
    delivered,    \* every frame the process thread has sent so far, oldest first
    depth_array,  \* CurrentDepth.depth_array, the held frame
    pixels,       \* data of the image behind CurrentDepth.handle
    crosshair,    \* translation of the Crosshair entity, in half pixels
    tilt,         \* the device's tilt, in degrees
    done,         \* the systems that have run in the current tick
    got           \* whether try_recv returned a frame in the current tick

vars == <<pc, dev_count, chan, delivered, depth_array, pixels, crosshair, tilt, done, got>>

-----------------------------------------------------------------------------
(* Bounds of the model *)

\* columns of a depth frame (the program's frames have 640, main.rs:208)
FrameWidth == 3
\* rows of a depth frame (the program's frames have 480, main.rs:208)
FrameHeight == 2
\* frames the sensor delivers in one run
MaxFrames == 3
\* the device accepts a tilt of at most MaxTiltSteps steps away from level
MaxTiltSteps == 1
\* devices num_devices may report
MaxDevices == 2

(* Program constants *)

Threshold == 400
DepthDivisor == 8
TiltStep == 5
U8 == 256
U16 == 65536

-----------------------------------------------------------------------------
(* Depth frames: row-major sequences of FrameHeight * FrameWidth samples *)

Cols == 0 .. (FrameWidth - 1)
Rows == 0 .. (FrameHeight - 1)
FrameLen == FrameWidth * FrameHeight

\* Array2D::from_iter_row_major(data.iter(), rows, columns): element (row, column)
At(data, row, col) == data[row * FrameWidth + col + 1]

NearSamples == {0, 399}
FarSamples == {400, 2047, 2048, 65535}

\* a frame with `near` at the cells of mask and `far` elsewhere
MaskFrame(mask, near, far) ==
    [i \in 1 .. FrameLen |-> IF i \in mask THEN near ELSE far]

AllFrames ==
    {MaskFrame(mask, near, far) :
        mask \in SUBSET (1 .. FrameLen), near \in NearSamples, far \in FarSamples}

\* the frames the sensor delivers in the pipeline's specification
FarFrame == MaskFrame({}, 0, 1000)
BlobFrame == MaskFrame({FrameLen}, 100, 1000)
SensorFrames == {FarFrame, BlobFrame}

-----------------------------------------------------------------------------
(* center_of_close_blob (main.rs:198-274) *)

IsNear_le(sample) == sample <= Threshold

\* `k < &&400` (main.rs:211, 227, 243, 259)
IsNear(sample) == sample < Threshold

\* the inner loop over arr_2d.column_iter(i): some sample of the column is near
ColumnHit(data, i) == \E k \in Rows : IsNear(At(data, k, i))

\* the inner loop over arr_2d.row_iter(i): some sample of the row is near
RowHit(data, i) == \E k \in Cols : IsNear(At(data, i, k))

RECURSIVE scan_left(_, _)
\* for i in 0..640, breaking at the first column with a near sample; 0 if none
scan_left(data, i) ==
    IF i >= FrameWidth THEN 0
    ELSE IF ColumnHit(data, i) THEN i
    ELSE scan_left(data, i + 1)

RECURSIVE scan_right(_, _)
\* for i in (0..640).rev(), breaking at the first column with a near sample
scan_right(data, i) ==
    IF i < 0 THEN 0
    ELSE IF ColumnHit(data, i) THEN i
    ELSE scan_right(data, i - 1)

RECURSIVE scan_top(_, _)
\* for i in 0..480, breaking at the first row with a near sample
scan_top(data, i) ==
    IF i >= FrameHeight THEN 0
    ELSE IF RowHit(data, i) THEN i
    ELSE scan_top(data, i + 1)

RECURSIVE scan_bottom(_, _)
\* for i in (0..480).rev(), breaking at the first row with a near sample
scan_bottom(data, i) ==
    IF i < 0 THEN 0
    ELSE IF RowHit(data, i) THEN i
    ELSE scan_bottom(data, i - 1)

midpoint_round_up(a, b) == ((a + b + 1) % U16) \div 2

\* u16 addition and division: (a + b) / 2
midpoint_u16(a, b) == ((a + b) % U16) \div 2

center_of_close_blob(data) ==
    LET left_most == scan_left(data, 0)
        right_most == scan_right(data, FrameWidth - 1)
        top_most == scan_top(data, 0)
        bottom_most == scan_bottom(data, FrameHeight - 1)
    IN  [x |-> midpoint_u16(left_most, right_most),
         y |-> midpoint_u16(top_most, bottom_most)]

-----------------------------------------------------------------------------
(* The pixel loop of update_image_from_depth_data (main.rs:145-152) *)

\* `as u8` keeps the low eight bits
as_u8(n) == n % U8

\* four bytes per measurement: 0, 0, 0, (measurement / 8) as u8
new_pixels(data) ==
    [i \in 1 .. 4 * Len(data) |->
        IF i % 4 = 0 THEN as_u8(data[i \div 4] \div DepthDivisor) ELSE 0]

\* Image::new_fill(width x height, &[0, 0, 0, 255]) (main.rs:66-75)
InitialPixels == [i \in 1 .. 4 * FrameLen |-> IF i % 4 = 0 THEN U8 - 1 ELSE 0]

-----------------------------------------------------------------------------
(* The mapping of move_crosshair_to_pos (main.rs:173-190) *)

Abs(n) == IF n < 0 THEN -n ELSE n

\* screen_pos.y = (screen_pos.y - 480.0).abs()
flip_y(pos) == [x |-> pos.x, y |-> Abs(pos.y - FrameHeight)]

below_epsilon_wide(x) == 10 * x < 11

\* screen_pos.x < 0.1
below_epsilon(x) == 10 * x < 1

\* ndc = (screen_pos / window_size) * 2 - 1, then the inverse of the default 2D
\* camera's projection (orthographic, window sized, at the origin): world = ndc *
\* window_size / 2 = screen_pos - window_size / 2.  Kept in half pixels.
world_pos(screen_pos) ==
    [x |-> 2 * screen_pos.x - FrameWidth, y |-> 2 * screen_pos.y - FrameHeight]

-----------------------------------------------------------------------------
(* The depth stream's channel *)

\* Sender::send of the process thread's depth callback: the frame is queued behind
\* the frames not yet received
send(ch, frame) == Append(ch, frame)

try_recv_newest(ch) ==
    IF ch = << >>
    THEN [ok |-> FALSE, data |-> << >>, rest |-> ch]
    ELSE [ok |-> TRUE, data |-> ch[Len(ch)], rest |-> << >>]

\* kinect.dstream.receiver.try_recv() (main.rs:122): Err on an empty channel, else
\* the oldest queued frame, which leaves the channel
try_recv(ch) ==
    IF ch = << >>
    THEN [ok |-> FALSE, data |-> << >>, rest |-> ch]
    ELSE [ok |-> TRUE, data |-> Head(ch), rest |-> Tail(ch)]

-----------------------------------------------------------------------------
(* The device's tilt commands (main.rs:278-279, 283-284) *)

TiltRange ==
    {TiltStep * k : k \in (0 - MaxTiltSteps) .. MaxTiltSteps}

\* One pressed key: get_tilt_degree().unwrap(), then
\* set_tilt_degree(tilt_degree + delta).unwrap().  st is [tilt, alive]; a failed
\* command panics at its unwrap, and a set outside the device's range fails.
tilt_command(st, pressed, delta, get_ok, set_ok) ==
    IF ~pressed \/ ~st.alive THEN st
    ELSE IF ~get_ok THEN [tilt |-> st.tilt, alive |-> FALSE]
    ELSE IF ~set_ok \/ (st.tilt + delta) \notin TiltRange
         THEN [tilt |-> st.tilt, alive |-> FALSE]
    ELSE [tilt |-> st.tilt + delta, alive |-> TRUE]

-----------------------------------------------------------------------------
(* The initial state: main has built the App and nothing has run *)

Systems ==
    {"read_depth_data", "keyboard_input",
     "update_image_from_depth_data", "move_crosshair_to_pos"}

Init ==
    /\ pc = "init_context"
    /\ dev_count = 0
    /\ chan = << >>
    /\ delivered = << >>
    /\ depth_array = << >>
    /\ pixels = InitialPixels
    /\ crosshair = [x |-> 0, y |-> 0]
    /\ tilt \in TiltRange
    /\ done = {}
    /\ got = FALSE

-----------------------------------------------------------------------------
(* setup_kinect (main.rs:24-50) and spawn_depth (main.rs:52-115) *)

pipeline_state == <<chan, delivered, depth_array, pixels, crosshair, tilt, done, got>>

\* FreenectContext::init_with_video_motor().unwrap()
init_context ==
    /\ pc = "init_context"
    /\ \E ok \in BOOLEAN : pc' = IF ok THEN "num_devices" ELSE "init_failed"
    /\ UNCHANGED <<dev_count, pipeline_state>>

\* ctx.num_devices().unwrap(), and the branch on dev_count == 0: both arms only
\* print, and both go on to open_device
num_devices ==
    /\ pc = "num_devices"
    /\ \E ok \in BOOLEAN :
         IF ok
         THEN /\ dev_count' \in 0 .. MaxDevices
              /\ pc' = "open_device"
         ELSE /\ dev_count' = dev_count
              /\ pc' = "init_failed"
    /\ UNCHANGED pipeline_state

\* ctx.open_device(0).unwrap(): there is a device 0 only if a device was found
open_device ==
    /\ pc = "open_device"
    /\ \E ok \in BOOLEAN :
         pc' = IF ok /\ dev_count > 0 THEN "set_depth_mode" ELSE "init_failed"
    /\ UNCHANGED <<dev_count, pipeline_state>>

\* device.set_depth_mode(Medium, Bit10).unwrap()
set_depth_mode ==
    /\ pc = "set_depth_mode"
    /\ \E ok \in BOOLEAN : pc' = IF ok THEN "depth_stream" ELSE "init_failed"
    /\ UNCHANGED <<dev_count, pipeline_state>>

\* device.depth_stream().unwrap(): the channel is created empty
depth_stream ==
    /\ pc = "depth_stream"
    /\ \E ok \in BOOLEAN : pc' = IF ok THEN "spawn_process_thread" ELSE "init_failed"
    /\ chan' = << >>
    /\ UNCHANGED <<dev_count, delivered, depth_array, pixels, crosshair, tilt, done, got>>

\* ctx.spawn_process_thread().unwrap(), then insert_non_send_resource
spawn_process_thread ==
    /\ pc = "spawn_process_thread"
    /\ \E ok \in BOOLEAN : pc' = IF ok THEN "spawn_depth" ELSE "init_failed"
    /\ UNCHANGED <<dev_count, pipeline_state>>

\* spawn_depth: the crosshair at the origin, the image filled with (0, 0, 0, 255),
\* CurrentDepth with an empty depth_array
spawn_depth ==
    /\ pc = "spawn_depth"
    /\ pc' = "running"
    /\ depth_array' = << >>
    /\ pixels' = InitialPixels
    /\ crosshair' = [x |-> 0, y |-> 0]
    /\ UNCHANGED <<dev_count, chan, delivered, tilt, done, got>>

setup_kinect ==
    \/ init_context
    \/ num_devices
    \/ open_device
    \/ set_depth_mode
    \/ depth_stream
    \/ spawn_process_thread

-----------------------------------------------------------------------------
(* The freenect process thread (spawned at main.rs:47) *)

\* the depth callback sends one frame on the depth stream's channel
process_thread ==
    /\ pc \in {"spawn_depth", "running"}
    /\ Len(delivered) < MaxFrames
    /\ \E frame \in SensorFrames :
         /\ chan' = send(chan, frame)
         /\ delivered' = Append(delivered, frame)
    /\ UNCHANGED <<pc, dev_count, depth_array, pixels, crosshair, tilt, done, got>>

-----------------------------------------------------------------------------
(* The systems of one tick (main.rs:301-304) *)

read_depth_data_clearing ==
    /\ pc = "running"
    /\ "read_depth_data" \notin done
    /\ LET r == try_recv(chan)
       IN  /\ depth_array' = r.data
           /\ chan' = r.rest
           /\ got' = r.ok
    /\ done' = done \cup {"read_depth_data"}
    /\ UNCHANGED <<pc, dev_count, delivered, pixels, crosshair, tilt>>

\* read_depth_data (main.rs:117-131): one try_recv; a frame replaces the held one
read_depth_data ==
    /\ pc = "running"
    /\ "read_depth_data" \notin done
    /\ LET r == try_recv(chan)
       IN  /\ depth_array' = IF r.ok THEN r.data ELSE depth_array
           /\ chan' = r.rest
           /\ got' = r.ok
    /\ done' = done \cup {"read_depth_data"}
    /\ UNCHANGED <<pc, dev_count, delivered, pixels, crosshair, tilt>>

\* keyboard_input (main.rs:276-286): the Down key, then the Up key
keyboard_input ==
    /\ pc = "running"
    /\ "keyboard_input" \notin done
    /\ \E down, up, get1, set1, get2, set2 \in BOOLEAN :
         LET after_down ==
                 tilt_command([tilt |-> tilt, alive |-> TRUE], down,
                              0 - TiltStep, get1, set1)
             after_up == tilt_command(after_down, up, TiltStep, get2, set2)
         IN  /\ tilt' = after_up.tilt
             /\ pc' = IF after_up.alive THEN "running" ELSE "panicked"
    /\ done' = done \cup {"keyboard_input"}
    /\ UNCHANGED <<dev_count, chan, delivered, depth_array, pixels, crosshair, got>>

\* update_image_from_depth_data (main.rs:133-159)
update_image_from_depth_data ==
    /\ pc = "running"
    /\ "update_image_from_depth_data" \notin done
    /\ pixels' = IF Len(depth_array) = 0 THEN pixels ELSE new_pixels(depth_array)
    /\ done' = done \cup {"update_image_from_depth_data"}
    /\ UNCHANGED <<pc, dev_count, chan, delivered, depth_array, crosshair, tilt, got>>

\* the translation move_crosshair_to_pos leaves in the crosshair (main.rs:166-194)
crosshair_after(data, old) ==
    IF Len(data) = 0 THEN old
    ELSE LET screen_pos == flip_y(center_of_close_blob(data))
         IN  IF below_epsilon(screen_pos.x) THEN old ELSE world_pos(screen_pos)

\* move_crosshair_to_pos (main.rs:161-196)
move_crosshair_to_pos ==
    /\ pc = "running"
    /\ "move_crosshair_to_pos" \notin done
    /\ crosshair' = crosshair_after(depth_array, crosshair)
    /\ done' = done \cup {"move_crosshair_to_pos"}
    /\ UNCHANGED <<pc, dev_count, chan, delivered, depth_array, pixels, tilt, got>>

\* the scheduler finishes the tick once every system has run (App::run, main.rs:305)
end_tick ==
    /\ pc = "running"
    /\ done = Systems
    /\ done' = {}
    /\ got' = FALSE
    /\ UNCHANGED <<pc, dev_count, chan, delivered, depth_array, pixels, crosshair, tilt>>

-----------------------------------------------------------------------------
(* The program *)

Next ==
    \/ setup_kinect
    \/ spawn_depth
    \/ process_thread
    \/ read_depth_data
    \/ keyboard_input
    \/ update_image_from_depth_data
    \/ move_crosshair_to_pos
    \/ end_tick

Spec == Init /\ [][Next]_vars

(* The systems that read the held frame, from any held frame, with the crosshair
   at the origin or where an earlier frame with a blob has put it *)

InitFrame ==
    /\ pc = "running"
    /\ dev_count = 1
    /\ chan = << >>
    /\ delivered = << >>
    /\ depth_array \in AllFrames \cup {<< >>}
    /\ pixels = InitialPixels
    /\ crosshair \in {[x |-> 0, y |-> 0], crosshair_after(BlobFrame, [x |-> 0, y |-> 0])}
    /\ tilt = 0
    /\ done = {}
    /\ got = FALSE

NextFrame ==
    \/ update_image_from_depth_data
    \/ move_crosshair_to_pos

SpecFrame == InitFrame /\ [][NextFrame]_vars

-----------------------------------------------------------------------------
(* Properties *)

ReadStep == "read_depth_data" \notin done /\ "read_depth_data" \in done'
KeyboardStep == "keyboard_input" \notin done /\ "keyboard_input" \in done'
VisualizeStep ==
    "update_image_from_depth_data" \notin done /\ "update_image_from_depth_data" \in done'
LocateStep == "move_crosshair_to_pos" \notin done /\ "move_crosshair_to_pos" \in done'

Newest == delivered[Len(delivered)]

\* C1: in every tick read_depth_data runs before update_image_from_depth_data and
\* move_crosshair_to_pos, the visualization before the location, and a frame
\* received in a tick is the frame visualized in that tick.
C1_FixedStageOrder ==
    /\ ("update_image_from_depth_data" \in done \/ "move_crosshair_to_pos" \in done)
           => "read_depth_data" \in done
    /\ "move_crosshair_to_pos" \in done => "update_image_from_depth_data" \in done
    /\ (done = Systems /\ got) => pixels = new_pixels(depth_array)

C3_HeldIsLastReceived ==
    /\ [](LET n == Len(delivered) - Len(chan)
          IN  depth_array = IF n = 0 THEN << >> ELSE delivered[n])
    /\ [][depth_array' # depth_array => (ReadStep /\ chan # << >>)]_vars
    /\ [][(ReadStep /\ chan = << >>) => depth_array' = depth_array]_vars

\* a tick whose receive returned nothing, with a frame held from an earlier tick
C3_Witness ==
    /\ "read_depth_data" \in done
    /\ ~got
    /\ depth_array # << >>

\* C4: in a tick whose receive returned nothing, the held frame, the pixel buffer
\* and the crosshair keep their values; with an empty held frame the
\* visualization and the location change nothing.
C4_NoFrameNoChange ==
    [][/\ (pc = "running" /\ "read_depth_data" \in done /\ ~got) =>
            /\ depth_array' = depth_array
            /\ pixels' = pixels
            /\ crosshair' = crosshair
       /\ (depth_array = << >> /\ (VisualizeStep \/ LocateStep)) =>
            /\ pixels' = pixels
            /\ crosshair' = crosshair]_vars

NoNearSample(data) == \A i \in 1 .. Len(data) : data[i] >= 400

\* C5: for a frame with no sample below 400 center_of_close_blob returns (0, 0),
\* and move_crosshair_to_pos leaves the crosshair where it was.
C5_NoNearSampleNoMove ==
    /\ []((depth_array # << >> /\ NoNearSample(depth_array)) =>
            center_of_close_blob(depth_array) = [x |-> 0, y |-> 0])
    /\ [][(LocateStep /\ depth_array # << >> /\ NoNearSample(depth_array)) =>
            crosshair' = crosshair]_vars

\* move_crosshair_to_pos has run on a frame with no near sample, and the crosshair
\* is still where an earlier frame put it, away from the origin
C5_Witness ==
    /\ "move_crosshair_to_pos" \in done
    /\ depth_array # << >>
    /\ NoNearSample(depth_array)
    /\ crosshair # [x |-> 0, y |-> 0]

\* C6 as stated: with a non-empty held frame, only the result (0, 0) skips the
\* mapping; any other result moves the crosshair to its world position.
C6_OnlyOriginSkips ==
    [][(LocateStep /\ depth_array # << >>) =>
         LET c == center_of_close_blob(depth_array)
         IN  crosshair' = IF c.x = 0 /\ c.y = 0
                          THEN crosshair
                          ELSE world_pos([x |-> c.x, y |-> Abs(c.y - FrameHeight)])]_vars

\* C6 as amended: with a non-empty held frame, a result whose x is 0 skips the
\* mapping whatever its y; a result whose x is at least 1 moves the crosshair to
\* its world position.
C6_ZeroColumnSkips ==
    [][(LocateStep /\ depth_array # << >>) =>
         LET c == center_of_close_blob(depth_array)
         IN  crosshair' = IF c.x = 0
                          THEN crosshair
                          ELSE world_pos([x |-> c.x, y |-> Abs(c.y - FrameHeight)])]_vars

\* move_crosshair_to_pos has run on a frame whose blob is centred in column 0 of a
\* lower row, and the crosshair was not moved
C6_Witness ==
    /\ "move_crosshair_to_pos" \in done
    /\ depth_array # << >>
    /\ center_of_close_blob(depth_array).x = 0
    /\ center_of_close_blob(depth_array).y > 0
    /\ crosshair = [x |-> 0, y |-> 0]

\* the samples below 400 are exactly those of the rectangle of columns l..r, rows t..b
IsSingleRect(data, l, r, t, b) ==
    /\ data # << >>
    /\ l <= r
    /\ t <= b
    /\ \A row \in Rows, col \in Cols :
         (At(data, row, col) < 400) <=> (l <= col /\ col <= r /\ t <= row /\ row <= b)

\* C7: for a frame whose near samples form one rectangle, center_of_close_blob
\* returns ((l + r) div 2, (t + b) div 2), and that is the position
\* move_crosshair_to_pos maps when its x is not 0.
C7_RectangleMidpoint ==
    \A l \in Cols, r \in Cols, t \in Rows, b \in Rows :
        IsSingleRect(depth_array, l, r, t, b) =>
            /\ center_of_close_blob(depth_array) =
                   [x |-> (l + r) \div 2, y |-> (t + b) \div 2]
            /\ ("move_crosshair_to_pos" \in done /\ (l + r) \div 2 >= 1) =>
                   crosshair = [x |-> 2 * ((l + r) \div 2) - FrameWidth,
                                y |-> 2 * Abs(((t + b) \div 2) - FrameHeight)
                                          - FrameHeight]

\* move_crosshair_to_pos has run on a rectangle of columns 1..2 and rows 0..1,
\* whose midpoints (1.5, 0.5) round to (1, 0)
C7_Witness ==
    /\ "move_crosshair_to_pos" \in done
    /\ IsSingleRect(depth_array, 1, 2, 0, 1)
    /\ crosshair = [x |-> 2 - FrameWidth, y |-> FrameHeight]

Clamp255(n) == IF n > 255 THEN 255 ELSE n

\* C8: after the visualization of a non-empty frame the buffer holds, for every
\* sample, the pixel (0, 0, 0, a) with a = floor(sample / 8) clamped into [0, 255].
C8_AlphaClamped ==
    ("update_image_from_depth_data" \in done /\ depth_array # << >>) =>
        /\ Len(pixels) = 4 * Len(depth_array)
        /\ \A k \in 1 .. Len(depth_array) :
             /\ pixels[4 * k - 3] = 0
             /\ pixels[4 * k - 2] = 0
             /\ pixels[4 * k - 1] = 0
             /\ pixels[4 * k] = Clamp255(depth_array[k] \div 8)

\* C9: a step of keyboard_input moves the tilt by 5 degrees up or down or leaves
\* it, and the pipeline keeps running after it, also when a command fails.
C9_TiltFailureRecovered ==
    [][KeyboardStep =>
         /\ pc' = "running"
         /\ tilt' \in {tilt, tilt + 5, tilt - 5}]_vars

\* C10: setup_kinect goes on to open a device only if it found one, and after a
\* failed initialization nothing of the pipeline has run.
C10_NoDeviceStopsRun ==
    /\ pc \notin {"init_context", "num_devices", "init_failed"} => dev_count > 0
    /\ pc = "init_failed" =>
         /\ done = {}
         /\ depth_array = << >>
         /\ pixels = InitialPixels
         /\ crosshair = [x |-> 0, y |-> 0]

====
